---- MODULE Spec2Model ----
(***************************************************************************)
(* SolanaAutonomy (Lord14sol/automaton): the agent's Solana identity, the  *)
(* Life Support check (checkVitalSigns / keepAlive), the cross-chain       *)
(* bridge (executeCrossChainSwap) and the Jupiter swap (swap).             *)
(*                                                                         *)
(* Two implementations of the class live in the repository:                *)
(*   "mayan"  : src/skills/solana-terminator/solana-autonomy.js            *)
(*   "jumper" : src/unnamed/part_000                                       *)
(* impl says which one was instantiated.                                   *)
(*                                                                         *)
(* An async method runs atomically between two awaits, so every action is  *)
(* the code from one resumption to the next suspension.  Each invocation   *)
(* occupies a slot of calls; several invocations of the same object may    *)
(* be suspended at once.                                                   *)
(*                                                                         *)
(* Units: SOL amounts are lamports (LAMPORTS_PER_SOL per SOL); the code    *)
(* compares lamports / LAMPORTS_PER_SOL with 0.4 + 0.05 and with 0.5,      *)
(* which in IEEE doubles is the comparison of the lamports with            *)
(* 450000000 and 500000000.  USDC amounts are cents.                       *)
(***************************************************************************)
EXTENDS Integers, Sequences, FiniteSets, TLC

VARIABLES impl, running, walletFile, identity, generated, written, loaded,
          calls

vars == <<impl, running, walletFile, identity, generated, written, loaded,
          calls>>

idVars == <<walletFile, identity, generated, written, loaded>>

\* ---------------------------------------------------------------- bounds

MaxCalls == 2
MaxQuotes == 2
MaxTime == 1
MaxLoads == 4

\* ------------------------------------------------------------- constants

LAMPORTS_PER_SOL == 1000000000

\* checkVitalSigns of solana-autonomy.js: 5.0 USDC, 0.05, 0.4 and 0.45 SOL.
USDC_THRESHOLD == 500
SOL_RESERVE == 5 * (LAMPORTS_PER_SOL \div 100)
SOL_TO_BRIDGE == 4 * (LAMPORTS_PER_SOL \div 10)
MIN_SOL == SOL_TO_BRIDGE + SOL_RESERVE

\* checkVitalSigns of part_000: 5.00 USDC, more than 0.5 SOL, 0.4 SOL bridged.
JUMPER_THRESHOLD == 500
JUMPER_MIN_SOL == 5 * (LAMPORTS_PER_SOL \div 10)
JUMPER_AMOUNT == 4 * (LAMPORTS_PER_SOL \div 10)

\* null / undefined.
Null == 0 - 1

Impls == {"mayan", "jumper"}
Slots == 1..MaxCalls

\* ---------------------------------------------------------------- identity

\* The public half the ed25519 seed determines.
DerivePublic(seed) == (seed * 7 + 3) % 256

\* Keypair.generate(): the n-th keypair this machine draws; secretKey is the
\* seed followed by the public key.
KeypairGenerate(n) == <<n, DerivePublic(n)>>

NoIdentity == <<>>

\* The size of a secret key (64 bytes in web3.js; seed and public half here).
KEY_LEN == Len(KeypairGenerate(0))

\* publicKey.toBase58(): the digits of the public key in base 58.
ToBase58(pub) == <<pub \div 58, pub % 58>>

\* getAddress(): this.identity?.publicKey.toBase58() ?? null
AddressOf(kp) == IF kp = NoIdentity THEN <<>> ELSE ToBase58(kp[2])

GetAddress == AddressOf(identity)

\* The wallet file: absent, or the text JSON.stringify(Array.from(secretKey))
\* wrote; closed is FALSE for a text cut short by a failed write.
Absent == [exists |-> FALSE, bytes |-> <<>>, closed |-> FALSE]

JSONStringify(arr) == [exists |-> TRUE, bytes |-> arr, closed |-> TRUE]

Truncated(arr) == [exists |-> TRUE, bytes |-> SubSeq(arr, 1, Len(arr) - 1), closed |-> FALSE]

\* JSON.parse: throws on a text that does not close.
JSONParseThrows(f) == ~f.closed

\* Uint8Array.from: every element modulo 256.
Uint8ArrayFrom(arr) == [i \in 1..Len(arr) |-> arr[i] % 256]

\* Keypair.fromSecretKey: throws on a wrong size or a public half that is not
\* the seed's.
FromSecretKeyThrows(sk) == Len(sk) # KEY_LEN \/ DerivePublic(sk[1]) # sk[2]

\* loadIdentity, the branch of an existing file: the keypair, or null when the
\* read, the parse or fromSecretKey throws.
LoadExisting(readOk) ==
    IF ~readOk \/ JSONParseThrows(walletFile)
    THEN NoIdentity
    ELSE LET sk == Uint8ArrayFrom(walletFile.bytes)
         IN IF FromSecretKeyThrows(sk) THEN NoIdentity ELSE sk

\* The fault of generating and writing a new keypair when the existing file
\* cannot be read.
LoadIdentityRegenerating(fsOutcome) ==
    LET keypair == KeypairGenerate(generated + 1)
    IN IF walletFile.exists /\ fsOutcome # "readFail"
       THEN [keypair |-> LoadExisting(TRUE), file |-> walletFile, gen |-> 0, wrote |-> 0]
       ELSE IF fsOutcome \in {"mkdirFail", "writeFail"}
            THEN [keypair |-> NoIdentity, file |-> walletFile, gen |-> 1, wrote |-> 0]
            ELSE IF fsOutcome = "writeCut"
                 THEN [keypair |-> NoIdentity, file |-> Truncated(keypair), gen |-> 1, wrote |-> 1]
                 ELSE [keypair |-> keypair, file |-> JSONStringify(keypair), gen |-> 1, wrote |-> 1]

\* loadIdentity(): what it returns and what it leaves on disk.  fsOutcome is
\* what the file system does: "ok", "readFail" (existing file), "mkdirFail",
\* "writeFail" (nothing written), "writeCut" (the write fails part way).
LoadIdentity(fsOutcome) ==
    IF walletFile.exists
    THEN [keypair |-> LoadExisting(fsOutcome # "readFail"),
          file |-> walletFile, gen |-> 0, wrote |-> 0]
    ELSE LET keypair == KeypairGenerate(generated + 1)
         IN CASE fsOutcome = "mkdirFail" ->
                   [keypair |-> NoIdentity, file |-> walletFile, gen |-> 1, wrote |-> 0]
              [] fsOutcome = "writeFail" ->
                   [keypair |-> NoIdentity, file |-> walletFile, gen |-> 1, wrote |-> 0]
              [] fsOutcome = "writeCut" ->
                   [keypair |-> NoIdentity, file |-> Truncated(keypair), gen |-> 1, wrote |-> 1]
              [] OTHER ->
                   [keypair |-> keypair, file |-> JSONStringify(keypair), gen |-> 1, wrote |-> 1]

FsOutcomes == {"ok", "readFail", "mkdirFail", "writeFail", "writeCut"}

FsOutcomesFor(f) == IF f.exists THEN {"ok", "readFail"}
                    ELSE {"ok", "mkdirFail", "writeFail", "writeCut"}

\* ------------------------------------------------------------ invocations

\* A quote of a provider.  Mayan's quotes carry expectedAmountOut (optional),
\* minAmountOut and an expiry; Jupiter's route carries outAmount.
NoQuote == [provider |-> "none", expectedAmountOut |-> Null, minAmountOut |-> Null,
            outAmount |-> Null, expiresAt |-> Null]

\* A carries no expectedAmountOut (the result falls back on minAmountOut), B
\* carries one and an expiry.
QuoteA == [NoQuote EXCEPT !.provider = "A", !.minAmountOut = 980]

QuoteB == [NoQuote EXCEPT !.provider = "B", !.expectedAmountOut = 995, !.minAmountOut = 960,
           !.expiresAt = 1]

MayanQuotes == {QuoteA, QuoteB}

JupiterRoute == [NoQuote EXCEPT !.provider = "jupiter", !.outAmount = 990]

\* The lists a quote request may answer: up to MaxQuotes candidates, in any
\* order, no candidate twice.
QuoteLists ==
    {q \in UNION {[1..n -> MayanQuotes] : n \in 0..MaxQuotes} :
        \A i, j \in 1..Len(q) : i # j => q[i] # q[j]}

\* What the ledger may answer to getBalance, in lamports.
SolSamples == {MIN_SOL - 1, MIN_SOL, JUMPER_MIN_SOL, JUMPER_MIN_SOL + 1}

\* The Base USDC balances a caller passes, in cents.
UsdcSamples == {USDC_THRESHOLD - 1, USDC_THRESHOLD, USDC_THRESHOLD + 1}

\* The amounts a caller passes to executeCrossChainSwap and to swap directly.
ExecAmounts == {LAMPORTS_PER_SOL \div 10}

SwapAmounts == {LAMPORTS_PER_SOL}

NoResult == [kind |-> "none", success |-> FALSE, status |-> "", error |-> "",
             txHash |-> "none", amount |-> Null, expected |-> Null]

\* One invocation: op is the method executing, pc the await it is suspended
\* at, usdc and sol the balances checkVitalSigns saw, stale whether the
\* selected quote had expired when the transaction was requested from it, log
\* the calls made to the collaborators, in order.
Idle == [op |-> "idle", pc |-> "idle", usdc |-> Null, sol |-> Null,
         amount |-> Null, quotes |-> <<>>, best |-> NoQuote, expected |-> Null,
         stale |-> FALSE, conf |-> "none", log |-> <<>>, res |-> NoResult]

\* The clock readings a step may fall on.
ClockReadings == 0..MaxTime

\* expiresAt has passed at time t (a quote without expiry never expires).
Expired(q, t) == q.expiresAt # Null /\ q.expiresAt <= t

\* { success: true, status: 'nominal' }
Nominal == [NoResult EXCEPT !.kind = "returned", !.success = TRUE, !.status = "nominal"]

\* { success: false, error: msg }
Failure(msg) == [NoResult EXCEPT !.kind = "returned", !.error = msg]

\* { success: true, txHash, amount, expected }
Success(txHash, amount, expected) ==
    [NoResult EXCEPT !.kind = "returned", !.success = TRUE, !.txHash = txHash,
                     !.amount = amount, !.expected = expected]

\* An exception that leaves the async method: the caller's promise rejects.
Thrown(msg) == [NoResult EXCEPT !.kind = "thrown", !.error = msg]

Done(rec, result) == [rec EXCEPT !.pc = "done", !.res = result]

Logged(rec, ev) == [rec EXCEPT !.log = Append(@, ev)]

Count(log, ev) == Cardinality({i \in 1..Len(log) : log[i] = ev})

\* ------------------------------------------- solana-autonomy.js ("mayan")

\* The fault of a missing identity guard: the quote is requested whether or
\* not a keypair is loaded.
ExecuteCrossChainSwapUnguarded(rec, amountSol) ==
    Logged([rec EXCEPT !.op = "executeCrossChainSwap", !.amount = amountSol,
                       !.pc = "quote"], "quote")

\* executeCrossChainSwap up to its first await: the identity guard, then the
\* quote request.
ExecuteCrossChainSwap(rec, amountSol) ==
    IF identity = NoIdentity
    THEN Done([rec EXCEPT !.op = "executeCrossChainSwap", !.amount = amountSol],
              Thrown("No Solana identity loaded"))
    ELSE Logged([rec EXCEPT !.op = "executeCrossChainSwap", !.amount = amountSol,
                            !.pc = "quote"], "quote")

\* The fault of a strict comparison: a balance equal to the threshold counts
\* as low.
IsNominalStrict(usdc) == usdc > USDC_THRESHOLD

\* currentUsdcBalance >= USDC_THRESHOLD
IsNominal(usdc) == usdc >= USDC_THRESHOLD

\* The fault of an inclusive comparison: a reserve of exactly MIN_SOL is
\* turned away.
IsInsufficientSolInclusive(sol) == sol <= MIN_SOL

\* solBalance < MIN_SOL
IsInsufficientSol(sol) == sol < MIN_SOL

\* getSolBalance up to its await: 0 without a read when there is no identity.
GetSolBalance(rec) ==
    IF identity = NoIdentity
    THEN [rec EXCEPT !.pc = "balance"]
    ELSE Logged([rec EXCEPT !.pc = "balance"], "getBalance")

\* checkVitalSigns up to its first await.
CheckVitalSignsMayan(rec, usdc) ==
    LET r == [rec EXCEPT !.op = "checkVitalSigns", !.usdc = usdc]
    IN IF IsNominal(usdc) THEN Done(r, Nominal) ELSE GetSolBalance(r)

\* checkVitalSigns from the balance to the next await.
AfterBalanceMayan(rec, sol) ==
    LET r == [rec EXCEPT !.sol = sol]
    IN IF IsInsufficientSol(sol)
       THEN Done(r, Failure("Insufficient SOL for bridge"))
       ELSE ExecuteCrossChainSwap(r, SOL_TO_BRIDGE)

\* bestQuote.expectedAmountOut ?? bestQuote.minAmountOut
ExpectedOut(q) == IF q.expectedAmountOut # Null THEN q.expectedAmountOut ELSE q.minAmountOut

\* const bestQuote = quotes[0]
BestQuote(quotes) == quotes[1]

\* The fault of asking for quotes again when the list came back empty.
AfterQuoteRequery(rec, resp, t) ==
    CASE resp.kind = "reject" -> Done(rec, Thrown("quote request failed"))
      [] resp.kind = "null" -> Done(rec, Thrown("Mayan Finance returned no quotes"))
      [] OTHER ->
           IF Len(resp.data) = 0
           THEN Logged(rec, "quote")
           ELSE Logged([rec EXCEPT !.quotes = resp.data,
                                   !.best = BestQuote(resp.data),
                                   !.expected = ExpectedOut(BestQuote(resp.data)),
                                   !.stale = Expired(BestQuote(resp.data), t),
                                   !.pc = "payload"], "payload")

\* executeCrossChainSwap from the quote response to the swap-payload request.
\* resp.kind: "reject" (axios throws), "null" (no data), "data"; t is the time
\* of the step.
AfterQuote(rec, resp, t) ==
    CASE resp.kind = "reject" -> Done(rec, Thrown("quote request failed"))
      [] resp.kind = "null" -> Done(rec, Thrown("Mayan Finance returned no quotes"))
      [] OTHER ->
           IF Len(resp.data) = 0
           THEN Done(rec, Thrown("Mayan Finance returned no quotes"))
           ELSE Logged([rec EXCEPT !.quotes = resp.data,
                                   !.best = BestQuote(resp.data),
                                   !.expected = ExpectedOut(BestQuote(resp.data)),
                                   !.stale = Expired(BestQuote(resp.data), t),
                                   !.pc = "payload"], "payload")

\* The fault of signing the provider's transaction as it came, without a
\* fresh block reference.
AfterPayloadSignsFirst(rec, tx) ==
    CASE tx = "reject" -> Done(rec, Thrown("swap request failed"))
      [] tx = "missing" -> Done(rec, Thrown("Mayan did not return a transaction"))
      [] tx = "malformed" -> Done(rec, Thrown("deserialize failed"))
      [] OTHER -> Logged(Logged([rec EXCEPT !.pc = "send"], "sign"), "send")

\* From the swap-payload response to the block-reference request.
\* tx: "reject", "missing" (no transaction field), "malformed" (deserialize
\* throws), "ok".
AfterPayload(rec, tx) ==
    CASE tx = "reject" -> Done(rec, Thrown("swap request failed"))
      [] tx = "missing" -> Done(rec, Thrown("Mayan did not return a transaction"))
      [] tx = "malformed" -> Done(rec, Thrown("deserialize failed"))
      [] OTHER -> Logged([rec EXCEPT !.pc = "blockhash"], "blockhash")

\* From the block reference to the submission: sign, then sendRawTransaction.
AfterBlockhash(rec, ok) ==
    IF ~ok
    THEN Done(rec, Thrown("getLatestBlockhash failed"))
    ELSE Logged(Logged([rec EXCEPT !.pc = "send"], "sign"), "send")

\* From the submission's answer to the confirmation request.
AfterSend(rec, ok) ==
    IF ~ok
    THEN Done(rec, Thrown("sendRawTransaction failed"))
    ELSE Logged([rec EXCEPT !.pc = "confirm"], "confirm")

\* The fault of reporting the quote's amount as the amount bridged.
AfterConfirmAmountFromQuote(rec, conf) ==
    LET r == [rec EXCEPT !.conf = conf]
    IN CASE conf = "timeout" -> Done(r, Thrown("confirmation timed out"))
         [] conf = "reject" -> Done(r, Thrown("confirmTransaction failed"))
         [] OTHER -> Done(r, Success("signature", r.best.minAmountOut, r.expected))

\* The fault of submitting again when the confirmation times out.
AfterConfirmResubmit(rec, conf) ==
    LET r == [rec EXCEPT !.conf = conf]
    IN CASE conf = "timeout" -> Logged([rec EXCEPT !.pc = "send"], "send")
         [] conf = "reject" -> Done(r, Thrown("confirmTransaction failed"))
         [] OTHER -> Done(r, Success("signature", r.amount, r.expected))

\* The fault of waiting for the confirmation without a bound: a timeout is
\* followed by another wait.
AfterConfirmWaitsOn(rec, conf) ==
    LET r == [rec EXCEPT !.conf = conf]
    IN CASE conf = "timeout" ->
              [rec EXCEPT !.conf = IF rec.conf = "timeout" THEN "none" ELSE "timeout"]
         [] conf = "reject" -> Done(r, Thrown("confirmTransaction failed"))
         [] OTHER -> Done(r, Success("signature", r.amount, r.expected))

\* From the confirmation's answer to the result.  conf: "ok" (confirmed, err
\* null), "err" (confirmed with an on-chain error in value.err), "timeout"
\* and "reject" (confirmTransaction throws).  The answer's value is not read.
AfterConfirm(rec, conf) ==
    LET r == [rec EXCEPT !.conf = conf]
    IN CASE conf = "timeout" -> Done(r, Thrown("confirmation timed out"))
         [] conf = "reject" -> Done(r, Thrown("confirmTransaction failed"))
         [] OTHER -> Done(r, Success("signature", r.amount, r.expected))

\* swap up to its first await: the identity guard, then the route request.
Swap(rec, amount) ==
    IF identity = NoIdentity
    THEN Done([rec EXCEPT !.op = "swap", !.amount = amount],
              Thrown("No Solana identity loaded"))
    ELSE Logged([rec EXCEPT !.op = "swap", !.amount = amount, !.pc = "squote"], "quote")

\* swap from the route response to the swap-transaction request; reading
\* quote.outAmount of a missing body throws.
AfterSwapQuote(rec, resp, t) ==
    CASE resp.kind = "reject" -> Done(rec, Thrown("quote request failed"))
      [] resp.kind = "null" -> Done(rec, Thrown("TypeError"))
      [] OTHER -> Logged([rec EXCEPT !.quotes = resp.data,
                                     !.best = resp.data[1],
                                     !.expected = resp.data[1].outAmount,
                                     !.stale = Expired(resp.data[1], t),
                                     !.pc = "spayload"], "payload")

\* From the swap-transaction response to the submission: deserialize, sign,
\* sendRawTransaction (no block reference is fetched before signing).
AfterSwapPayload(rec, tx) ==
    CASE tx = "reject" -> Done(rec, Thrown("swap request failed"))
      [] tx = "missing" -> Done(rec, Thrown("TypeError"))
      [] tx = "malformed" -> Done(rec, Thrown("deserialize failed"))
      [] OTHER -> Logged(Logged([rec EXCEPT !.pc = "ssend"], "sign"), "send")

\* From the submission's answer to the block-reference request.
AfterSwapSend(rec, ok) ==
    IF ~ok
    THEN Done(rec, Thrown("sendRawTransaction failed"))
    ELSE Logged([rec EXCEPT !.pc = "sblockhash"], "blockhash")

\* From the block reference to the confirmation request.
AfterSwapBlockhash(rec, ok) ==
    IF ~ok
    THEN Done(rec, Thrown("getLatestBlockhash failed"))
    ELSE Logged([rec EXCEPT !.pc = "sconfirm"], "confirm")

\* From the confirmation's answer to the result { success, txHash, inAmount,
\* outAmount }.
AfterSwapConfirm(rec, conf) ==
    LET r == [rec EXCEPT !.conf = conf]
    IN CASE conf = "timeout" -> Done(r, Thrown("confirmation timed out"))
         [] conf = "reject" -> Done(r, Thrown("confirmTransaction failed"))
         [] OTHER -> Done(r, Success("signature", r.amount, r.expected))

\* -------------------------------------------------- part_000 ("jumper")

\* executeCrossChainSwap up to its await, inside its try: reading
\* this.identity.publicKey of a null identity throws and is caught.
ExecuteCrossChainSwapJumper(rec, amountSol) ==
    IF identity = NoIdentity
    THEN Done([rec EXCEPT !.op = "executeCrossChainSwap", !.amount = amountSol],
              Failure("TypeError"))
    ELSE Logged([rec EXCEPT !.op = "executeCrossChainSwap", !.amount = amountSol,
                            !.pc = "jquote"], "quote")

\* From the quote's answer to the result: a failed request is replaced by a
\* simulated answer, and the result is a success with a made-up hash.
AfterQuoteJumper(rec, resp) ==
    Done([rec EXCEPT !.quotes = IF resp.kind = "data" THEN resp.data ELSE <<>>],
         Success("SIMULATED", rec.amount, Null))

\* currentBaseBalanceUsdc < threshold
IsLowJumper(usdc) == usdc < JUMPER_THRESHOLD

\* solBalance > 0.5
HasEnoughSolJumper(sol) == sol > JUMPER_MIN_SOL

CheckVitalSignsJumper(rec, usdc) ==
    LET r == [rec EXCEPT !.op = "checkVitalSigns", !.usdc = usdc]
    IN IF IsLowJumper(usdc) THEN GetSolBalance(r) ELSE Done(r, Nominal)

AfterBalanceJumper(rec, sol) ==
    LET r == [rec EXCEPT !.sol = sol]
    IN IF HasEnoughSolJumper(sol)
       THEN ExecuteCrossChainSwapJumper(r, JUMPER_AMOUNT)
       ELSE Done(r, Failure("Insufficient SOL"))

\* ------------------------------------------------------------- collaborators

QuoteResponses ==
    {[kind |-> "reject", data |-> <<>>], [kind |-> "null", data |-> <<>>]}
    \cup {[kind |-> "data", data |-> q] : q \in QuoteLists}

RouteResponses ==
    {[kind |-> "reject", data |-> <<>>], [kind |-> "null", data |-> <<>>],
     [kind |-> "data", data |-> <<JupiterRoute>>]}

PayloadResponses == {"reject", "missing", "malformed", "ok"}

ConfirmResponses == {"ok", "err", "timeout", "reject"}

\* ------------------------------------------------------------------ actions

Init ==
    /\ impl \in Impls
    /\ running = FALSE
    /\ walletFile = Absent
    /\ identity = NoIdentity
    /\ generated = 0
    /\ written = 0
    /\ loaded = <<>>
    /\ calls = [c \in Slots |-> Idle]

\* new SolanaAutonomy(): this.identity = this.loadIdentity()
Construct ==
    /\ ~running
    /\ Len(loaded) < MaxLoads
    /\ \E fs \in FsOutcomesFor(walletFile) :
         LET l == LoadIdentity(fs)
         IN /\ identity' = l.keypair
            /\ walletFile' = l.file
            /\ generated' = generated + l.gen
            /\ written' = written + l.wrote
            /\ loaded' = Append(loaded, AddressOf(l.keypair))
    /\ running' = TRUE
    /\ UNCHANGED <<impl, calls>>

\* The first start of the process.
Boot == Len(loaded) = 0 /\ Construct

\* The process ends; the object and its suspended invocations are gone.
Shutdown ==
    /\ running
    /\ running' = FALSE
    /\ identity' = NoIdentity
    /\ calls' = [c \in Slots |-> Idle]
    /\ UNCHANGED <<impl, walletFile, generated, written, loaded>>

\* The fault of remembering a failure: the keypair is dropped once an
\* invocation has ended in an exception.
StepForgettingIdentity(c, rec) ==
    /\ calls' = [calls EXCEPT ![c] = rec]
    /\ identity' = IF rec.res.kind = "thrown" THEN NoIdentity ELSE identity
    /\ UNCHANGED <<impl, running, walletFile, generated, written, loaded>>

Step(c, rec) ==
    /\ calls' = [calls EXCEPT ![c] = rec]
    /\ UNCHANGED <<impl, running, idVars>>

CheckVitalSigns(rec, usdc) ==
    IF impl = "mayan" THEN CheckVitalSignsMayan(rec, usdc)
    ELSE CheckVitalSignsJumper(rec, usdc)

\* keepAlive(base, usdc): return await this.checkVitalSigns(base, usdc)
KeepAlive(rec, usdc) == CheckVitalSigns(rec, usdc)

CallKeepAlive(c) ==
    /\ running /\ calls[c].pc = "idle"
    /\ \E usdc \in UsdcSamples :
         Step(c, KeepAlive(Idle, usdc))

CallCheckVitalSigns(c) ==
    /\ running /\ calls[c].pc = "idle"
    /\ \E usdc \in UsdcSamples :
         Step(c, CheckVitalSigns(Idle, usdc))

CallExecuteCrossChainSwap(c) ==
    /\ running /\ calls[c].pc = "idle"
    /\ \E amount \in ExecAmounts :
         Step(c, IF impl = "mayan"
                 THEN ExecuteCrossChainSwap(Idle, amount)
                 ELSE ExecuteCrossChainSwapJumper(Idle, amount))

CallSwap(c) ==
    /\ running /\ calls[c].pc = "idle" /\ impl = "mayan"
    /\ \E amount \in SwapAmounts :
         Step(c, Swap(Idle, amount))

\* connection.getBalance answers (or getSolBalance's 0 is delivered).
ResumeBalance(c) ==
    /\ calls[c].pc = "balance"
    /\ \/ /\ identity = NoIdentity
          /\ Step(c, IF impl = "mayan" THEN AfterBalanceMayan(calls[c], 0)
                     ELSE AfterBalanceJumper(calls[c], 0))
       \/ /\ identity # NoIdentity
          /\ \E lamports \in SolSamples :
               Step(c, IF impl = "mayan" THEN AfterBalanceMayan(calls[c], lamports)
                       ELSE AfterBalanceJumper(calls[c], lamports))
       \/ /\ identity # NoIdentity
          /\ Step(c, Done(calls[c], Thrown("getBalance failed")))

ResumeQuote(c) ==
    /\ calls[c].pc = "quote"
    /\ \E resp \in QuoteResponses, t \in ClockReadings :
         Step(c, AfterQuote(calls[c], resp, t))

ResumePayload(c) ==
    /\ calls[c].pc = "payload"
    /\ \E tx \in PayloadResponses : Step(c, AfterPayload(calls[c], tx))

ResumeBlockhash(c) ==
    /\ calls[c].pc = "blockhash"
    /\ \E ok \in BOOLEAN : Step(c, AfterBlockhash(calls[c], ok))

ResumeSend(c) ==
    /\ calls[c].pc = "send"
    /\ \E ok \in BOOLEAN : Step(c, AfterSend(calls[c], ok))

ResumeConfirm(c) ==
    /\ calls[c].pc = "confirm"
    /\ \E conf \in ConfirmResponses : Step(c, AfterConfirm(calls[c], conf))

ResumeSwapQuote(c) ==
    /\ calls[c].pc = "squote"
    /\ \E resp \in RouteResponses, t \in ClockReadings :
         Step(c, AfterSwapQuote(calls[c], resp, t))

ResumeSwapPayload(c) ==
    /\ calls[c].pc = "spayload"
    /\ \E tx \in PayloadResponses : Step(c, AfterSwapPayload(calls[c], tx))

ResumeSwapSend(c) ==
    /\ calls[c].pc = "ssend"
    /\ \E ok \in BOOLEAN : Step(c, AfterSwapSend(calls[c], ok))

ResumeSwapBlockhash(c) ==
    /\ calls[c].pc = "sblockhash"
    /\ \E ok \in BOOLEAN : Step(c, AfterSwapBlockhash(calls[c], ok))

ResumeSwapConfirm(c) ==
    /\ calls[c].pc = "sconfirm"
    /\ \E conf \in ConfirmResponses : Step(c, AfterSwapConfirm(calls[c], conf))

ResumeQuoteJumper(c) ==
    /\ calls[c].pc = "jquote"
    /\ \E resp \in QuoteResponses : Step(c, AfterQuoteJumper(calls[c], resp))

\* The caller takes the settled promise's outcome.
Release(c) ==
    /\ calls[c].pc = "done"
    /\ Step(c, Idle)

Next ==
    \/ Boot
    \/ \E c \in Slots :
         \/ CallKeepAlive(c)
         \/ CallCheckVitalSigns(c)
         \/ CallExecuteCrossChainSwap(c)
         \/ CallSwap(c)
         \/ ResumeBalance(c)
         \/ ResumeQuote(c)
         \/ ResumePayload(c)
         \/ ResumeBlockhash(c)
         \/ ResumeSend(c)
         \/ ResumeConfirm(c)
         \/ ResumeSwapQuote(c)
         \/ ResumeSwapPayload(c)
         \/ ResumeSwapSend(c)
         \/ ResumeSwapBlockhash(c)
         \/ ResumeSwapConfirm(c)
         \/ ResumeQuoteJumper(c)
         \/ Release(c)

Spec == Init /\ [][Next]_vars

\* A collaborator answers the call invocation c is suspended at.
Resume(c) ==
    \/ ResumeBalance(c)
    \/ ResumeQuote(c)
    \/ ResumePayload(c)
    \/ ResumeBlockhash(c)
    \/ ResumeSend(c)
    \/ ResumeConfirm(c)
    \/ ResumeSwapQuote(c)
    \/ ResumeSwapPayload(c)
    \/ ResumeSwapSend(c)
    \/ ResumeSwapBlockhash(c)
    \/ ResumeSwapConfirm(c)
    \/ ResumeQuoteJumper(c)

\* Every external call eventually answers or fails.
SpecLive == Init /\ [][Next]_vars /\ \A c \in Slots : WF_vars(Resume(c))

\* The identity store alone: the process is started and stopped.
NextIdentity == Construct \/ Shutdown

SpecIdentity == Init /\ [][NextIdentity]_vars

\* ------------------------------------------------------------------ claims

\* An invocation that entered through keepAlive / checkVitalSigns.
Vital(c) == calls[c].usdc # Null

Sends(c) == Count(calls[c].log, "send")

Has(c, ev) == Count(calls[c].log, ev) > 0

InsufficientResult(r) ==
    /\ r.kind = "returned" /\ ~r.success
    /\ r.error \in {"Insufficient SOL for bridge", "Insufficient SOL"}

\* C1: whenever checkVitalSigns / keepAlive is given an operating balance at
\* or above the threshold (B >= T, B = T included), the invocation has ended
\* with { success: true, status: 'nominal' } and has made no call at all: no
\* reserve-balance read, no quote request, no signing, no submission.
C1_NominalNoAction ==
    \A c \in Slots :
        (Vital(c) /\ calls[c].usdc >= USDC_THRESHOLD) =>
            /\ calls[c].pc = "done"
            /\ calls[c].res = Nominal
            /\ calls[c].log = <<>>
            /\ calls[c].sol = Null

\* C1 witness: an invocation with B = T exactly has reported nominal.
C1_Witness ==
    \E c \in Slots : Vital(c) /\ calls[c].usdc = USDC_THRESHOLD /\ calls[c].res = Nominal

InPipeline(c) ==
    calls[c].op = "executeCrossChainSwap" /\ calls[c].pc # "done"

\* C4: no two invocations of checkVitalSigns / keepAlive on the same object
\* are inside the bridging pipeline at once (the second one is turned away
\* with AlreadyInProgress before any quote request).
C4_SingleFlight ==
    \A c, d \in Slots :
        (c # d /\ Vital(c) /\ Vital(d)) => ~(InPipeline(c) /\ InPipeline(d))

\* C5: within one invocation of executeCrossChainSwap or swap the signed
\* transaction is submitted at most once and one payload is built from the
\* selected quote; after a confirmation that timed out, threw or reported an
\* error, the invocation has ended with that single submission.
C5_AtMostOneSubmission ==
    \A c \in Slots :
        /\ Sends(c) <= 1
        /\ Count(calls[c].log, "payload") <= 1
        /\ calls[c].conf # "none" => (calls[c].pc = "done" /\ Sends(c) = 1)

\* C5 witness: a bridge and a swap whose confirmation timed out have ended
\* after one submission.
C5_Witness ==
    /\ \E c \in Slots :
        /\ calls[c].op = "executeCrossChainSwap" /\ calls[c].conf = "timeout"
        /\ calls[c].pc = "done" /\ Sends(c) = 1
    /\ \E c \in Slots :
        /\ calls[c].op = "swap" /\ calls[c].conf = "timeout"
        /\ calls[c].pc = "done" /\ Sends(c) = 1

\* C6: every finished invocation of keepAlive, checkVitalSigns,
\* executeCrossChainSwap and swap has returned a result object; none has
\* ended in an exception thrown to the caller.
C6_AlwaysStructuredResult ==
    \A c \in Slots : calls[c].pc = "done" => calls[c].res.kind = "returned"

\* C7: a success result with the submission's transaction handle is returned
\* only when the confirmation reported no on-chain error; a confirmation that
\* carries an error never ends in a success result.
C7_SuccessOnlyIfConfirmed ==
    \A c \in Slots :
        /\ (calls[c].res.success /\ calls[c].res.txHash = "signature") => calls[c].conf = "ok"
        /\ calls[c].conf = "err" => (calls[c].res.kind = "returned" /\ ~calls[c].res.success)

\* C8: a finished executeCrossChainSwap whose quote request failed or
\* returned nothing usable has no success result, and a success result comes
\* with the handle of a submission made in that invocation.
C8_NoFabricatedSuccess ==
    \A c \in Slots :
        (calls[c].op = "executeCrossChainSwap" /\ calls[c].pc = "done") =>
            /\ calls[c].quotes = <<>> => ~calls[c].res.success
            /\ calls[c].res.success => (Sends(c) = 1 /\ calls[c].res.txHash = "signature")

\* The address of the n-th keypair the machine generated.
AddressOfGenerated(n) == AddressOf(KeypairGenerate(n))

\* C9 as stated: from no identity file, once loadIdentity has run, exactly one
\* keypair was generated and it is the one persisted, and every load so far
\* returned its public address.
C9_PersistenceAsStated ==
    Len(loaded) >= 1 =>
        /\ generated = 1 /\ written = 1
        /\ walletFile = JSONStringify(KeypairGenerate(1))
        /\ \A i \in 1..Len(loaded) : loaded[i] = AddressOfGenerated(1)

\* C9 amended: a load that finds no file generates one keypair, and persists
\* and returns it only when the directory creation and the write succeed
\* (otherwise it returns null, and a later load that still finds no file
\* generates another keypair).  The file is written at most once.  From the
\* first load that returned an identity on, no keypair is generated and
\* nothing is written, the file holds that load's key material, and every
\* later load returns the same public address, or null when the file cannot
\* be read.
C9_Persistence ==
    /\ written <= 1
    /\ generated <= Len(loaded)
    /\ \A k \in 1..Len(loaded) :
         (loaded[k] # <<>> /\ \A i \in 1..(k - 1) : loaded[i] = <<>>) =>
            /\ generated = k /\ written = 1
            /\ walletFile = JSONStringify(KeypairGenerate(k))
            /\ \A j \in k..Len(loaded) : loaded[j] \in {<<>>, AddressOfGenerated(k)}
    /\ (running /\ identity # NoIdentity) =>
         /\ walletFile = JSONStringify(identity)
         /\ loaded[Len(loaded)] = GetAddress

\* C9 witness: the first load generated and persisted a keypair and two
\* restarts later the same address is returned, with one keypair generated.
C9_Witness ==
    /\ Len(loaded) >= 3
    /\ loaded[1] = AddressOfGenerated(1)
    /\ loaded[3] = loaded[1]
    /\ generated = 1 /\ written = 1
    /\ running /\ GetAddress = loaded[1]

\* C10: the quote the bridge builds its transaction from has the highest
\* expected destination amount among the candidates the provider returned,
\* in whatever order they came.
C10_BestQuoteSelected ==
    \A c \in Slots :
        calls[c].best # NoQuote =>
            \A i \in 1..Len(calls[c].quotes) :
                ExpectedOut(calls[c].quotes[i]) <= ExpectedOut(calls[c].best)

\* C11: a quote whose expiry has passed is never handed to the build step:
\* whenever an invocation has requested the swap payload for a selected quote,
\* that quote's expiresAt had not elapsed at that moment.
C11_NoStaleQuoteBuilt ==
    \A c \in Slots :
        Has(c, "payload") => ~calls[c].stale

\* Base USDC below which SKILL.md says Life Support starts, in cents.
DOC_USDC_THRESHOLD == 100

\* SOL balance SKILL.md requires to be exceeded, in lamports.
DOC_MIN_SOL == 6 * (LAMPORTS_PER_SOL \div 100)

\* SOL amount SKILL.md says is bridged, in lamports.
DOC_SOL_TO_BRIDGE == 5 * (LAMPORTS_PER_SOL \div 100)

\* C12: as SKILL.md documents it, keepAlive / checkVitalSigns starts the
\* bridge pipeline exactly when USDC < 1.00 and SOL > 0.06, and the amount
\* bridged is 0.05 SOL.
C12_DocumentedTrigger ==
    \A c \in Slots :
        (Vital(c) /\ calls[c].pc # "balance") =>
            /\ Has(c, "quote") <=>
                 /\ calls[c].usdc < DOC_USDC_THRESHOLD
                 /\ calls[c].sol # Null
                 /\ calls[c].sol > DOC_MIN_SOL
            /\ Has(c, "quote") => calls[c].amount = DOC_SOL_TO_BRIDGE

\* C13: a reserve balance of zero is never inferred from a read that failed
\* or could not be made: an invocation of checkVitalSigns that reports the
\* insufficient-reserve outcome, or that starts a bridge, has read the balance
\* from the ledger.
C13_NoZeroWithoutRead ==
    \A c \in Slots :
        Vital(c) =>
            /\ InsufficientResult(calls[c].res) => Has(c, "getBalance")
            /\ Has(c, "quote") => Has(c, "getBalance")

\* C14: while the controller's identity is null, whatever keepAlive,
\* checkVitalSigns, executeCrossChainSwap and swap calls have been made, no
\* quote request, payload request, signing or submission has occurred.
C14_NoIdentityNoAction ==
    identity = NoIdentity =>
        \A c \in Slots :
            /\ ~Has(c, "quote") /\ ~Has(c, "payload")
            /\ ~Has(c, "sign") /\ ~Has(c, "send")

\* C14 witness: with no identity loaded, a low-balance checkVitalSigns and a
\* direct executeCrossChainSwap have both run to their end.
C14_Witness ==
    /\ running /\ identity = NoIdentity
    /\ \E c, d \in Slots :
         /\ calls[c].pc = "done" /\ Vital(c) /\ calls[c].usdc < USDC_THRESHOLD
         /\ calls[d].pc = "done" /\ ~Vital(d)
         /\ calls[d].op = "executeCrossChainSwap"

\* The calls of executeCrossChainSwap to its collaborators, in program order.
ExecStages == <<"quote", "payload", "blockhash", "sign", "send", "confirm">>

\* The calls of swap to its collaborators, in program order.
SwapStages == <<"quote", "payload", "sign", "send", "blockhash", "confirm">>

IsPrefix(s, t) == Len(s) <= Len(t) /\ \A i \in 1..Len(s) : s[i] = t[i]

\* The calls an invocation made once past checkVitalSigns' balance read.
PipelineLog(c) == SelectSeq(calls[c].log, LAMBDA e : e # "getBalance")

\* C15 as stated: in every pipeline a signature is immediately preceded by
\* the block-reference fetch of the same invocation, itself made after the
\* quote was selected.
C15_BlockReferenceBeforeSigningAsStated ==
    \A c \in Slots :
        \A i \in 1..Len(calls[c].log) :
            calls[c].log[i] = "sign" =>
                /\ i > 2
                /\ calls[c].log[i - 1] = "blockhash"
                /\ \E j \in 1..(i - 2) : calls[c].log[j] = "payload"

\* C15: in executeCrossChainSwap a signature is immediately preceded by the
\* block-reference fetch, itself immediately preceded by the payload request
\* for the selected quote, and immediately followed by the submission; in
\* swap the transaction is signed as soon as the payload arrives, with no
\* block reference fetched before, and the block reference is fetched only
\* after the submission.
C15_BlockReferenceBeforeSigning ==
    \A c \in Slots :
        LET log == calls[c].log
        IN \A i \in 1..Len(log) :
             log[i] = "sign" =>
                /\ i < Len(log) /\ log[i + 1] = "send"
                /\ calls[c].op = "executeCrossChainSwap" =>
                     /\ i > 2
                     /\ log[i - 1] = "blockhash"
                     /\ log[i - 2] = "payload"
                /\ calls[c].op = "swap" =>
                     /\ i > 1
                     /\ log[i - 1] = "payload"
                     /\ \A j \in 1..Len(log) : log[j] = "blockhash" => j = i + 2

\* C15 witness: one executeCrossChainSwap has signed after its block
\* reference, and one swap has fetched its block reference after submitting.
C15_Witness ==
    \E c, d \in Slots :
        /\ calls[c].op = "executeCrossChainSwap" /\ Has(c, "sign")
        /\ calls[d].op = "swap" /\ Has(d, "sign") /\ Has(d, "blockhash")

\* C16: in executeCrossChainSwap the stages run strictly in the order quote,
\* payload, (block reference,) sign, submit, confirm; the quote endpoint is
\* queried exactly once per invocation that has an identity; and an
\* invocation that failed at a stage ended there, with no later stage: an
\* empty quote list or a missing payload leaves no signature and no
\* submission.
C16_StagesInOrder ==
    \A c \in Slots :
        calls[c].op = "executeCrossChainSwap" =>
            LET log == PipelineLog(c)
                err == calls[c].res.error
                failedAt(ev) == calls[c].pc = "done" /\ log # <<>> /\ log[Len(log)] = ev
            IN /\ IsPrefix(log, ExecStages)
               /\ Count(log, "quote") = IF identity = NoIdentity THEN 0 ELSE 1
               /\ calls[c].res.kind = "thrown" /\ identity # NoIdentity =>
                    /\ err \in {"quote request failed", "Mayan Finance returned no quotes"}
                         => failedAt("quote")
                    /\ err \in {"swap request failed", "Mayan did not return a transaction",
                                "deserialize failed"}
                         => failedAt("payload")
                    /\ err = "getLatestBlockhash failed" => failedAt("blockhash")
                    /\ err = "sendRawTransaction failed" => failedAt("send")
                    /\ err \in {"confirmation timed out", "confirmTransaction failed"}
                         => failedAt("confirm")

\* C16 witness: one invocation ended at the payload stage for want of a
\* transaction, another went through every stage to a confirmed result.
C16_Witness ==
    \E c, d \in Slots :
        /\ calls[c].op = "executeCrossChainSwap" /\ calls[c].pc = "done"
        /\ calls[c].res = Thrown("Mayan did not return a transaction")
        /\ PipelineLog(c) = <<"quote", "payload">>
        /\ calls[d].op = "executeCrossChainSwap" /\ calls[d].pc = "done"
        /\ calls[d].res.success /\ PipelineLog(d) = ExecStages

\* C17: a confirmation that times out after the ledger accepted the
\* submission produces a returned outcome of status timeout, neither success
\* nor failure, that carries the transaction's handle.
C17_TimeoutOutcome ==
    \A c \in Slots :
        calls[c].conf = "timeout" =>
            /\ calls[c].res.kind = "returned"
            /\ ~calls[c].res.success
            /\ calls[c].res.status = "timeout"
            /\ calls[c].res.txHash = "signature"

\* sendRawTransaction's maxRetries option.
MAX_RETRIES == 3

\* C18: provided every external call eventually answers or fails, every
\* invocation of checkVitalSigns eventually ends with an outcome; along the
\* way it makes each call of the pipeline at most once (no retry loop across
\* stages) and submits no more often than the retry count allows.
C18_Terminates ==
    /\ [](\A c \in Slots :
            Vital(c) =>
                /\ Sends(c) <= MAX_RETRIES
                /\ \A ev \in {"getBalance", "quote", "payload", "blockhash",
                              "sign", "send", "confirm"} : Count(calls[c].log, ev) <= 1)
    /\ \A c \in Slots :
         (Vital(c) /\ calls[c].pc # "done")
            ~> (calls[c].pc = "done" /\ calls[c].res.kind \in {"returned", "thrown"})

\* C18 witness: a checkVitalSigns that went through every call of the
\* pipeline, the confirmation wait included, has ended.
C18_Witness ==
    \E c \in Slots :
        /\ Vital(c) /\ calls[c].pc = "done"
        /\ calls[c].conf = "timeout"
        /\ Len(calls[c].log) = Len(ExecStages) + 1

====
